---- MODULE Spec2Model ----
(***************************************************************************)
(* A model of family-tree.js: the layout engine (buildTree,                *)
(* calculateDepth, orderFamiliesByConnectivity, calculateGraphLayout,      *)
(* placeSubtree), the shortest-path search (findPath, clearPath,           *)
(* clearPathDisplay) and the handlers of the highlight context (node       *)
(* clicks, the filter controls, resetView), as a state machine over the    *)
(* script's globals.                                                       *)
(*                                                                         *)
(* Numbers are exact rationals [k |-> "num", n, d]; JavaScript's           *)
(* `undefined` and its non-finite numbers (NaN, +-Infinity) are the two    *)
(* further values Undef and NaN, so that every `??`, `|| 0` and            *)
(* Number.isFinite guard of the source is a real branch of the model.      *)
(***************************************************************************)
EXTENDS Integers, Sequences, FiniteSets, TLC

VARIABLES
    treeData,      \* the loaded record set: treeData.people, in file order
    phase,         \* "loaded" before init() has built the tree, "ready" after
    layout,        \* what the last buildTree pass computed: the nodes, the
                   \* links, the cluster order and what its walks did
    currentPath,   \* the global currentPath: a sequence of names, <<>> for null
    pathNodes,     \* the global Set pathNodes
    pathLinks,     \* the global Set pathLinks, as <<from, to>> pairs
    outcome,       \* what the last handler reported to the user
    view,          \* the highlight context: the filter globals and controls,
                   \* the selected node, and the highlight callbacks pending
    opacity        \* the opacity of every node on the canvas, in percent

vars == <<treeData, phase, layout, currentPath, pathNodes, pathLinks, outcome,
          view, opacity>>

(***************************************************************************)
(* Bounds of the model.                                                    *)
(***************************************************************************)
\* longest bigs or littles list of one record
MaxList == 2
\* most big/little declarations in one record set
MaxEdges == 4
\* calls one top-level recursive walk may make before it counts as runaway
CallBudget == 16
\* records of a record set on which paths are searched
PathPeople == 3

\* The names of the records, in the order of treeData.people.
PeopleOrder == <<"B", "D", "A", "C">>
People == {PeopleOrder[i] : i \in 1..Len(PeopleOrder)}
\* A name that matches no record.
Unknown == "Z"
Names == People \cup {Unknown}

Null == "null"

\* a.localeCompare(b) on the model's names: position in the alphabet.
Rank(s) ==
    CASE s = "A" -> 1 [] s = "B" -> 2 [] s = "C" -> 3 [] s = "D" -> 4
      [] s = "W" -> 23 [] s = "X" -> 24 [] s = "Y" -> 25 [] s = "Z" -> 26
      [] s = "default" -> 5 [] OTHER -> 0

localeCompare(a, b) == Rank(a) - Rank(b)

(***************************************************************************)
(* Sequences.                                                              *)
(***************************************************************************)
Range(s) == {s[i] : i \in 1..Len(s)}

RECURSIVE SeqSum(_)
SeqSum(s) == IF s = <<>> THEN 0 ELSE Head(s) + SeqSum(Tail(s))

RECURSIVE SeqsUpTo(_, _)
\* all sequences over S of length at most n
SeqsUpTo(S, n) ==
    IF n = 0 THEN {<<>>}
    ELSE LET shorter == SeqsUpTo(S, n - 1)
         IN  shorter \cup {Append(s, x) : s \in shorter, x \in S}

IndexOf(s, x) == CHOOSE i \in 1..Len(s) : s[i] = x /\ \A j \in 1..(i - 1) : s[j] # x

NoDuplicates(s) == \A i, j \in 1..Len(s) : i # j => s[i] # s[j]

\* the function f with every value computed: [x \in S |-> e] is otherwise
\* computed anew at each application
Eager(f) == f @@ <<>>

(***************************************************************************)
(* Numbers.                                                                *)
(***************************************************************************)
Abs(i) == IF i < 0 THEN -i ELSE i

RECURSIVE GCD(_, _)
GCD(a, b) == IF b = 0 THEN a ELSE GCD(b, a % b)

Undef == [k |-> "undefined", n |-> 0, d |-> 1]
NaN == [k |-> "NaN", n |-> 0, d |-> 1]

\* the rational n/d in lowest terms; x/0 is not a finite number
Rat(n, d) ==
    IF d = 0 THEN NaN
    ELSE LET g == GCD(Abs(n), Abs(d))
             s == IF d < 0 THEN -1 ELSE 1
         IN  [k |-> "num", n |-> (s * n) \div g, d |-> (s * d) \div g]

Num(i) == [k |-> "num", n |-> i, d |-> 1]

IsFinite(v) == v.k = "num"
IsDefined(v) == v.k # "undefined"

\* JavaScript arithmetic: undefined converts to NaN, NaN is absorbing
Plus(a, b) ==
    IF IsFinite(a) /\ IsFinite(b) THEN Rat(a.n * b.d + b.n * a.d, a.d * b.d) ELSE NaN
Minus(a, b) ==
    IF IsFinite(a) /\ IsFinite(b) THEN Rat(a.n * b.d - b.n * a.d, a.d * b.d) ELSE NaN
Times(a, b) ==
    IF IsFinite(a) /\ IsFinite(b) THEN Rat(a.n * b.n, a.d * b.d) ELSE NaN
Over(a, b) ==
    IF IsFinite(a) /\ IsFinite(b) THEN Rat(a.n * b.d, a.d * b.n) ELSE NaN

\* a < b for finite a, b
Less(a, b) == a.n * b.d < b.n * a.d

\* v with no `??` guard
Unguarded(v, dflt) == v

\* v ?? dflt
OrElse(v, dflt) == IF IsDefined(v) THEN v ELSE dflt
\* v || dflt on a number: undefined, NaN and 0 are falsy
OrIfFalsy(v, dflt) == IF IsFinite(v) /\ v.n # 0 THEN v ELSE dflt

RECURSIVE NumSum(_)
NumSum(s) == IF s = <<>> THEN Num(0) ELSE Plus(Head(s), NumSum(Tail(s)))

RECURSIVE MinOf(_)
\* Math.min(...s) of a non-empty s: NaN if any element is not a finite number
MinOf(s) ==
    IF Len(s) = 1 THEN (IF IsFinite(s[1]) THEN s[1] ELSE NaN)
    ELSE LET m == MinOf(Tail(s))
         IN  IF ~IsFinite(s[1]) \/ ~IsFinite(m) THEN NaN
             ELSE IF Less(m, s[1]) THEN m ELSE s[1]

RECURSIVE MaxOf(_)
MaxOf(s) ==
    IF Len(s) = 1 THEN (IF IsFinite(s[1]) THEN s[1] ELSE NaN)
    ELSE LET m == MaxOf(Tail(s))
         IN  IF ~IsFinite(s[1]) \/ ~IsFinite(m) THEN NaN
             ELSE IF Less(s[1], m) THEN m ELSE s[1]

RECURSIVE InsertSorted(_, _, _)
\* x placed after the last element e of the sorted s with cmp[e, x] <= 0
InsertSorted(s, x, cmp) ==
    IF s = <<>> THEN <<x>>
    ELSE LET last == s[Len(s)]
         IN  IF cmp[last, x] <= 0 THEN Append(s, x)
             ELSE Append(InsertSorted(SubSeq(s, 1, Len(s) - 1), x, cmp), last)

RECURSIVE SortBy(_, _)
\* Array.prototype.sort under the comparator cmp (a function on pairs of
\* elements): stable, and a comparator result of NaN is given as 0
SortBy(s, cmp) ==
    IF s = <<>> THEN <<>>
    ELSE InsertSorted(SortBy(SubSeq(s, 1, Len(s) - 1), cmp), s[Len(s)], cmp)

(***************************************************************************)
(* The record set.  A person record is [name, bigs, littles, families];    *)
(* treeData is the sequence treeData.people.                               *)
(***************************************************************************)
Lists == SeqsUpTo(Names, MaxList)

RECURSIVE ListAssignments(_, _, _)
\* one list of L for each of the first k people, at most `budget` entries in all
ListAssignments(L, k, budget) ==
    IF k = 0 THEN {<<>>}
    ELSE UNION {{Append(rest, l) : rest \in ListAssignments(L, k - 1, budget - n),
                                   l \in {s \in L : Len(s) = n}} :
                n \in 0..budget}

\* k empty lists
NoLists(k) == [i \in 1..k |-> <<>>]

\* the records of the first Len(bigs) people
MakePeople(bigs, littles, families) ==
    [i \in 1..Len(bigs) |->
        [name |-> PeopleOrder[i], bigs |-> bigs[i], littles |-> littles[i],
         families |-> families[i]]]

\* bigs lists that agree with the littles lists: p's bigs are the records that
\* list p as a little, in file order
MirrorBigs(littles) ==
    [i \in 1..Len(littles) |->
        SelectSeq(SubSeq(PeopleOrder, 1, Len(littles)),
                  LAMBDA q : \E j \in 1..Len(littles) :
                      PeopleOrder[j] = q /\ PeopleOrder[i] \in Range(littles[j]))]

PersonNames(td) == {td[i].name : i \in 1..Len(td)}
PersonOf(td, name) == td[CHOOSE i \in 1..Len(td) : td[i].name = name]

(***************************************************************************)
(* buildTree: the adjacency lists and calculateDepth.                      *)
(***************************************************************************)
\* adjacencyList of buildTree: name -> {littles, bigs}
adjacencyList(td) ==
    [name \in PersonNames(td) |->
        [littles |-> PersonOf(td, name).littles, bigs |-> PersonOf(td, name).bigs]]

\* adjacencyList.get(name) || { littles: [], bigs: [] }
AdjOf(adj, name) ==
    IF name \in DOMAIN adj THEN adj[name] ELSE [littles |-> <<>>, bigs |-> <<>>]

\* links of buildTree: one {source, target} per entry of a littles list
RECURSIVE LinksFrom(_, _)
LinksFrom(td, i) ==
    IF i > Len(td) THEN <<>>
    ELSE [j \in 1..Len(td[i].littles) |->
             [source |-> td[i].name, target |-> td[i].littles[j]]]
         \o LinksFrom(td, i + 1)

BuildLinks(td) == LinksFrom(td, 1)

\* the state of one top-level walk: the names it has marked, the names it has
\* expanded in order, whether it expanded a name that was on its current path,
\* the calls it has made, and whether it ran past CallBudget
NewWalk(marked) ==
    [visited |-> marked, expanded |-> <<>>, backEdge |-> FALSE, calls |-> 0,
     runaway |-> FALSE]

\* a visited set kept from the pass before
StaleVisited == DOMAIN layout.nodes

\* const visited = new Set(), made anew for every entity
FreshVisited == {}

\* a walk that never finds a name visited
NeverVisited(st, name) == FALSE

\* visited.has(name)
DepthVisited(st, name) == name \in st.visited

\* a depth counted from one below
DepthBelow(currentDepth) == currentDepth - 1

\* the value returned for a visited name or a name with no bigs
DepthReturned(currentDepth) == currentDepth

RECURSIVE calculateDepth(_, _, _, _, _)
RECURSIVE MaxOverBigs(_, _, _, _, _, _, _)

\* calculateDepth(name, currentDepth) with the closure's visited set in st and
\* the names of the calls in progress in stack; returns [value, st]
calculateDepth(adj, name, currentDepth, stack, st) ==
    IF st.calls >= CallBudget
    THEN [value |-> currentDepth, st |-> [st EXCEPT !.runaway = TRUE]]
    ELSE LET st1 == [st EXCEPT !.calls = @ + 1]
         IN  IF DepthVisited(st1, name)
             THEN [value |-> DepthReturned(currentDepth), st |-> st1]
             ELSE LET st2 == [st1 EXCEPT !.visited = @ \cup {name},
                                        !.expanded = Append(@, name),
                                        !.backEdge = @ \/ name \in Range(stack)]
                      bigs == AdjOf(adj, name).bigs
                  IN  IF Len(bigs) = 0
                      THEN [value |-> DepthReturned(currentDepth), st |-> st2]
                      ELSE MaxOverBigs(adj, bigs, 1, currentDepth + 1,
                                       Append(stack, name), st2, -1)

\* Math.max(...bigs.map(big => calculateDepth(big, d))), left to right
MaxOverBigs(adj, bigs, i, d, stack, st, best) ==
    IF i > Len(bigs) THEN [value |-> best, st |-> st]
    ELSE LET r == calculateDepth(adj, bigs[i], d, stack, st)
         IN  MaxOverBigs(adj, bigs, i + 1, d, stack, r.st,
                         IF r.value > best THEN r.value ELSE best)

\* depth = calculateDepth(name), for one entity
DepthWalk(adj, name) == calculateDepth(adj, name, 0, <<>>, NewWalk(FreshVisited))

(***************************************************************************)
(* buildTree: the nodes array.                                             *)
(***************************************************************************)
\* person.nickname of the model's records (a display attribute)
NicknameOf(name) ==
    CASE name = "B" -> "Bob" [] name = "D" -> "Dora" [] OTHER -> ""

\* getNicknameOrName, for records that are not redacted
getNicknameOrName(personName) ==
    IF NicknameOf(personName) # "" THEN NicknameOf(personName) ELSE personName

\* measureNodeLabelWidth: 40 for an empty label, else 8 per character (the
\* width the source takes when the label cannot be measured)
measureNodeLabelWidth(name) ==
    LET label == getNicknameOrName(name)
    IN  IF label = "" THEN 40 ELSE Len(label) * 8

\* one element of buildTree's nodes array: the layout fields are not set yet
NewNode(td, adj, name) ==
    LET families == PersonOf(td, name).families
    IN  [id |-> name,
         family |-> IF families = <<>> THEN Null ELSE families[1],
         families |-> families,
         littles |-> AdjOf(adj, name).littles,
         bigs |-> AdjOf(adj, name).bigs,
         depth |-> DepthWalk(adj, name).value,
         estimatedWidth |-> Undef, unitX |-> Undef, localX |-> Undef,
         x |-> Undef, y |-> Undef, familyOrderByPosition |-> <<>>]

\* Array.from(allPeople): the names in file order, each once
RECURSIVE Dedup(_)
Dedup(s) ==
    IF s = <<>> THEN <<>>
    ELSE LET front == Dedup(SubSeq(s, 1, Len(s) - 1))
         IN  IF s[Len(s)] \in Range(front) THEN front ELSE Append(front, s[Len(s)])

NodeIds(td) == Dedup([i \in 1..Len(td) |-> td[i].name])

BuildNodes(td) ==
    LET adj == adjacencyList(td)
    IN  Eager([name \in PersonNames(td) |-> NewNode(td, adj, name)])

(***************************************************************************)
(* orderFamiliesByConnectivity.  familyCrossLinks is a function            *)
(* W[a][b]: the count stored for the pair, 0 where the Map has no entry.   *)
(***************************************************************************)
weightBetween(W, a, b) == W[a][b]

RECURSIVE SumOver(_, _)
\* Array.from(m.values()).reduce((s, n) => s + n, 0)
SumOver(m, S) ==
    IF S = {} THEN 0
    ELSE LET x == CHOOSE y \in S : TRUE IN m[x] + SumOver(m, S \ {x})

totalCrossWeight(W, key) == SumOver(W[key], DOMAIN W[key])

RECURSIVE SeedOf(_, _, _, _, _)
\* allFamilyKeys.forEach(k => { if (w > bestWeight) ... })
SeedOf(W, keys, i, best, bestWeight) ==
    IF i > Len(keys) THEN best
    ELSE LET w == totalCrossWeight(W, keys[i])
         IN  IF w > bestWeight THEN SeedOf(W, keys, i + 1, keys[i], w)
             ELSE SeedOf(W, keys, i + 1, best, bestWeight)

RECURSIVE BestUnplaced(_, _, _, _, _, _)
\* unplaced.forEach(f => { if (score > bestScore) ... })
BestUnplaced(W, placed, unplaced, i, bestF, bestScore) ==
    IF i > Len(unplaced) THEN bestF
    ELSE LET f == unplaced[i]
             score == SeqSum([j \in 1..Len(placed) |-> weightBetween(W, f, placed[j])])
         IN  IF score > bestScore
             THEN BestUnplaced(W, placed, unplaced, i + 1, f, score)
             ELSE BestUnplaced(W, placed, unplaced, i + 1, bestF, bestScore)

NameCmp(S) == [p \in S \X S |-> localeCompare(p[1], p[2])]

\* bestF of one turn of the while loop: unplaced keeps the insertion order
\* of the Set
NextFamily(W, placed, unplaced) ==
    LET found == BestUnplaced(W, placed, unplaced, 1, Null, -1)
    IN  IF found = Null THEN SortBy(unplaced, NameCmp(Range(unplaced)))[1] ELSE found

\* a chain that takes every family at its right end
AttachRight(W, placed, bestF) == Append(placed, bestF)

\* a chain that takes the family at both of its ends
AttachTwice(W, placed, bestF) == <<bestF>> \o placed \o <<bestF>>

\* placed after placed.unshift(bestF) or placed.push(bestF)
Attach(W, placed, bestF) ==
    IF weightBetween(W, bestF, placed[1]) >= weightBetween(W, bestF, placed[Len(placed)])
    THEN <<bestF>> \o placed
    ELSE Append(placed, bestF)

\* unplaced.delete(bestF)
Without(unplaced, bestF) == SelectSeq(unplaced, LAMBDA f : f # bestF)

RECURSIVE PlaceRest(_, _, _)
\* the while loop
PlaceRest(W, placed, unplaced) ==
    IF unplaced = <<>> THEN placed
    ELSE PlaceRest(W, Attach(W, placed, NextFamily(W, placed, unplaced)),
                   Without(unplaced, NextFamily(W, placed, unplaced)))

RECURSIVE PlaceTurns(_, _, _)
\* the turns of the while loop, in order: placed and unplaced before the
\* turn, the family it picks and placed after it
PlaceTurns(W, placed, unplaced) ==
    IF unplaced = <<>> THEN <<>>
    ELSE <<[placed |-> placed, unplaced |-> unplaced,
            bestF |-> NextFamily(W, placed, unplaced),
            after |-> Attach(W, placed, NextFamily(W, placed, unplaced))]>>
         \o PlaceTurns(W, Attach(W, placed, NextFamily(W, placed, unplaced)),
                       Without(unplaced, NextFamily(W, placed, unplaced)))

\* the first key, whatever the weights
FirstKey(W, keys) == keys[1]

\* best after lines 477-483
Seed(W, keys) == SeedOf(W, keys, 1, keys[1], totalCrossWeight(W, keys[1]))

orderFamiliesByConnectivity(allFamilyKeys, W) ==
    IF Len(allFamilyKeys) <= 1 THEN allFamilyKeys
    ELSE PlaceRest(W, <<Seed(W, allFamilyKeys)>>,
                   Without(allFamilyKeys, Seed(W, allFamilyKeys)))

(***************************************************************************)
(* calculateGraphLayout: one family's unit positions (placeSubtree).       *)
(* ns maps ids to nodes, ids is the nodes array's order.                   *)
(***************************************************************************)
labelPadding == 60
minGap == 8
layerHeight == 140
familyGap == 80
\* container.node().offsetWidth and offsetHeight
width == 1200
height == 800

FamilyKey(n) == IF n.family = Null THEN "default" ELSE n.family

\* links whose two ends are nodes
graphLinks(ns, links) ==
    SelectSeq(links, LAMBDA l : l.source \in DOMAIN ns /\ l.target \in DOMAIN ns)

InternalLinks(ns, gl, key) ==
    SelectSeq(gl, LAMBDA l : FamilyKey(ns[l.source]) = key
                             /\ FamilyKey(ns[l.target]) = key)

\* familyToInternalTargets.get(familyKey) || new Set()
InternalTargets(ns, gl, key) == {l.target : l \in Range(InternalLinks(ns, gl, key))}

\* familyToChildren.get(familyKey), each list sorted by name; [] where absent
ChildrenMap(ns, gl, key) ==
    LET internal == InternalLinks(ns, gl, key)
    IN  Eager([id \in DOMAIN ns |->
                  LET mine == SelectSeq(internal, LAMBDA l : l.source = id)
                      kids == [i \in 1..Len(mine) |-> mine[i].target]
                  IN  SortBy(kids, NameCmp(Range(kids)))])

\* node.unitX of a node the walk has not reached
FreshUnitX(n) == n.unitX

\* visiting.has(id)
Visiting(st, id) == id \in st.visiting

\* (childrenMap.get(id) || []).filter(id => nodeMap.get(id)), and the filter
\* of line 639 on the family
LittlesInFamily(ns, childrenMap, key, id) ==
    SelectSeq(childrenMap[id],
              LAMBDA l : l \in DOMAIN ns /\ FamilyKey(ns[l]) = key)

\* a walk whose counter never advances
TakeSameUnit(st, id) == [st EXCEPT !.unitX[id] = Num(st.nextUnitX)]

TakeUnit(st, id) ==
    [st EXCEPT !.unitX[id] = Num(st.nextUnitX), !.nextUnitX = @ + 1]

RECURSIVE placeSubtree(_, _, _, _, _, _)
RECURSIVE PlaceLittles(_, _, _, _, _, _, _)

\* placeSubtree(node); stack holds the ids of the calls in progress
placeSubtree(ns, childrenMap, key, id, stack, st) ==
    IF st.calls >= CallBudget THEN [st EXCEPT !.runaway = TRUE]
    ELSE LET st1 == [st EXCEPT !.calls = @ + 1]
         IN  IF IsDefined(st1.unitX[id]) THEN st1
             ELSE IF Visiting(st1, id) THEN TakeUnit(st1, id)
             ELSE LET st2 == [st1 EXCEPT !.visiting = @ \cup {id},
                                        !.expanded = Append(@, id),
                                        !.backEdge = @ \/ id \in Range(stack)]
                      littles == SelectSeq(childrenMap[id], LAMBDA l : l \in DOMAIN ns)
                  IN  IF Len(littles) = 0
                      THEN [TakeUnit(st2, id) EXCEPT !.visiting = @ \ {id}]
                      ELSE LET st3 == PlaceLittles(ns, childrenMap, key, littles, 1,
                                                   Append(stack, id), st2)
                               inFamily == LittlesInFamily(ns, childrenMap, key, id)
                               sum == NumSum([i \in 1..Len(inFamily) |->
                                                 OrElse(st3.unitX[inFamily[i]], Num(0))])
                           IN  [st3 EXCEPT !.unitX[id] = Over(sum, Num(Len(inFamily))),
                                           !.visiting = @ \ {id}]

\* for (const lid of littles) { ... }
PlaceLittles(ns, childrenMap, key, littles, i, stack, st) ==
    IF i > Len(littles) THEN st
    ELSE LET lid == littles[i]
             next ==
                 IF lid \in DOMAIN ns /\ FamilyKey(ns[lid]) = key
                 THEN IF Visiting(st, lid)
                      THEN IF ~IsDefined(st.unitX[lid]) THEN TakeUnit(st, lid) ELSE st
                      ELSE placeSubtree(ns, childrenMap, key, lid, stack, st)
                 ELSE st
         IN  PlaceLittles(ns, childrenMap, key, littles, i + 1, stack, next)

RECURSIVE PlaceRoots(_, _, _, _, _, _)
\* for (const r of roots) { placeSubtree(r); nextUnitX += 1; }
PlaceRoots(ns, childrenMap, key, roots, i, st) ==
    IF i > Len(roots) THEN st
    ELSE LET after == placeSubtree(ns, childrenMap, key, roots[i], <<>>, st)
         IN  PlaceRoots(ns, childrenMap, key, roots, i + 1,
                        [after EXCEPT !.nextUnitX = @ + 1])

\* roots of the family, sorted by name
RootsOf(ns, ids, gl, key) ==
    SortBy(SelectSeq(ids, LAMBDA id : FamilyKey(ns[id]) = key
                                      /\ id \notin InternalTargets(ns, gl, key)),
           NameCmp(DOMAIN ns))

\* what the loop body of lines 592-685 reads of one family: its key, its
\* nodes in order (familyNodesList), its childrenMap and its sorted roots
FamilyContext(ns, ids, gl, key) ==
    [key |-> key,
     list |-> SelectSeq(ids, LAMBDA id : FamilyKey(ns[id]) = key),
     childrenMap |-> ChildrenMap(ns, gl, key),
     roots |-> RootsOf(ns, ids, gl, key)]

\* the walk of one family: its final state
UnitWalk(ns, ctx) ==
    PlaceRoots(ns, ctx.childrenMap, ctx.key, ctx.roots, 1,
               [unitX |-> Eager([id \in DOMAIN ns |-> FreshUnitX(ns[id])]),
                nextUnitX |-> 0, visiting |-> {}, expanded |-> <<>>,
                backEdge |-> FALSE, calls |-> 0, runaway |-> FALSE])

(***************************************************************************)
(* calculateGraphLayout: one family's local positions.                     *)
(***************************************************************************)
\* (a, b) => a.unitX - b.unitX, a NaN difference counting as 0
UnitCmp(ns) ==
    [p \in (DOMAIN ns) \X (DOMAIN ns) |->
        IF IsFinite(ns[p[1]].unitX) /\ IsFinite(ns[p[2]].unitX)
        THEN (IF Less(ns[p[1]].unitX, ns[p[2]].unitX) THEN -1
              ELSE IF Less(ns[p[2]].unitX, ns[p[1]].unitX) THEN 1 ELSE 0)
        ELSE 0]

\* (a, b) => (b.depth || 0) - (a.depth || 0)
DepthCmp(ns) == [p \in (DOMAIN ns) \X (DOMAIN ns) |-> ns[p[2]].depth - ns[p[1]].depth]

\* the nodes with the unit positions of the walk written to them
WithUnitX(ns, st) ==
    Eager([id \in DOMAIN ns |-> [ns[id] EXCEPT !.unitX = st.unitX[id]]])

\* leaves: the family's nodes with no littles in it, sorted by unitX
LeavesOf(ns, ctx) ==
    SortBy(SelectSeq(ctx.list,
               LAMBDA id : Len(LittlesInFamily(ns, ctx.childrenMap, ctx.key, id)) = 0),
           UnitCmp(ns))

RECURSIVE LeafLocalX(_, _, _)
\* leafLocalX[i] = leafLocalX[i - 1] + (wPrev + wCur) / 2 + minGap
LeafLocalX(ns, leaves, i) ==
    IF i = 1 THEN Num(0)
    ELSE Plus(Plus(LeafLocalX(ns, leaves, i - 1),
                   Over(Plus(ns[leaves[i - 1]].estimatedWidth,
                             ns[leaves[i]].estimatedWidth), Num(2))),
              Num(minGap))

\* leaves.forEach((n, i) => { n.localX = leafLocalX[i]; })
WithLeafX(ns, leaves) ==
    Eager([id \in DOMAIN ns |->
              IF id \in Range(leaves)
              THEN [ns[id] EXCEPT !.localX = LeafLocalX(ns, leaves, IndexOf(leaves, id))]
              ELSE ns[id]])

\* defaultSpacing of line 665
DefaultSpacing(ns, list) ==
    Plus(Over(NumSum([i \in 1..Len(list) |-> OrIfFalsy(ns[list[i]].estimatedWidth, Num(80))]),
              Num(Len(list))),
         Num(minGap))

\* the fallback of lines 666-668 for a node that has no localX yet
FallbackLocalX(n, defaultSpacing) ==
    IF ~IsDefined(n.localX) THEN Times(OrElse(n.unitX, Num(0)), defaultSpacing)
    ELSE n.localX

WithFallback(ns, list) ==
    Eager([id \in DOMAIN ns |->
              IF id \in Range(list)
              THEN [ns[id] EXCEPT !.localX = FallbackLocalX(ns[id], DefaultSpacing(ns, list))]
              ELSE ns[id]])

\* c.localX ?? 0 in the parents' sum
KidLocalX(n) == OrElse(n.localX, Num(0))

\* the node's localX after its turn in byDepth.forEach: the mean of kids
CenteredLocalX(n, kidXs) ==
    IF Len(kidXs) > 0 /\ IsFinite(NumSum(kidXs))
    THEN Over(NumSum(kidXs), Num(Len(kidXs)))
    ELSE n.localX

RECURSIVE CenterParents(_, _, _, _)
\* byDepth.forEach(node => { ... node.localX = sum / count })
CenterParents(ns, ctx, byDepth, i) ==
    IF i > Len(byDepth) THEN ns
    ELSE CenterParents(
             [ns EXCEPT ![byDepth[i]].localX =
                 CenteredLocalX(ns[byDepth[i]],
                     LET kids == LittlesInFamily(ns, ctx.childrenMap, ctx.key, byDepth[i])
                     IN  [j \in 1..Len(kids) |-> KidLocalX(ns[kids[j]])])],
             ctx, byDepth, i + 1)

\* (n.localX ?? 0) -/+ (n.estimatedWidth || 0) / 2
LeftEdgeOf(n) ==
    Minus(OrElse(n.localX, Num(0)), Over(OrIfFalsy(n.estimatedWidth, Num(0)), Num(2)))
RightEdgeOf(n) ==
    Plus(OrElse(n.localX, Num(0)), Over(OrIfFalsy(n.estimatedWidth, Num(0)), Num(2)))

\* familyWidth of line 683
FamilyWidth(ns, list) ==
    Minus(MaxOf([i \in 1..Len(list) |-> RightEdgeOf(ns[list[i]])]),
          MinOf([i \in 1..Len(list) |-> LeftEdgeOf(ns[list[i]])]))

\* lines 650-684, after the walk has written the unit positions to ns
LocalPositions(ns, ctx) ==
    CenterParents(WithFallback(WithLeafX(ns, LeavesOf(ns, ctx)), ctx.list),
                  ctx, SortBy(ctx.list, DepthCmp(ns)), 1)

FamilyResult(ns, ctx, st) ==
    [ns |-> ns, familyWidth |-> FamilyWidth(ns, ctx.list), st |-> st]

FamilyAfterWalk(ns, ctx, st) == FamilyResult(LocalPositions(WithUnitX(ns, st), ctx), ctx, st)

\* the body of the loop over familyKeys: [ns, familyWidth, st]
LayoutFamily(ns, ctx) == FamilyAfterWalk(ns, ctx, UnitWalk(ns, ctx))

\* the result of the loop after one more family
PushFamily(one, acc) ==
    [ns |-> one.ns, familyWidths |-> Append(acc.familyWidths, one.familyWidth),
     walks |-> Append(acc.walks, one.st)]

RECURSIVE LayoutFamilies(_, _, _, _, _)
\* for (const familyKey of familyKeys) { ... familyWidths.push(familyWidth) }
LayoutFamilies(acc, ids, gl, keys, i) ==
    IF i > Len(keys) THEN acc
    ELSE LayoutFamilies(
             PushFamily(LayoutFamily(acc.ns, FamilyContext(acc.ns, ids, gl, keys[i])), acc),
             ids, gl, keys, i + 1)

(***************************************************************************)
(* calculateGraphLayout: the whole pass.                                   *)
(***************************************************************************)
\* familyCrossLinks as W[a][b]: the links between primary families a # b
FamilyCrossLinks(ns, gl, keys) ==
    [a \in keys |-> [b \in keys |->
        IF a = b THEN 0
        ELSE Cardinality({i \in 1..Len(gl) :
                 {FamilyKey(ns[gl[i].source]), FamilyKey(ns[gl[i].target])} = {a, b}})]]

\* Array.from(familyToNodes.keys()): the family keys in order of first node
AllFamilyKeys(ns, ids) == Dedup([i \in 1..Len(ids) |-> FamilyKey(ns[ids[i]])])

RECURSIVE CurrentXNoGap(_, _)
\* families side by side with no gap between them
CurrentXNoGap(familyWidths, f) ==
    IF f = 0 THEN Num(0)
    ELSE Plus(CurrentXNoGap(familyWidths, f - 1), familyWidths[f])

RECURSIVE CurrentX(_, _)
\* currentX after f families: currentX += familyWidths[f] + familyGap
CurrentX(familyWidths, f) ==
    IF f = 0 THEN Num(0)
    ELSE Plus(Plus(CurrentX(familyWidths, f - 1), familyWidths[f]), Num(familyGap))

\* familyBaseX[f], centring offset added
FamilyBaseX(familyWidths, f) ==
    Plus(CurrentX(familyWidths, f - 1),
         Minus(Rat(width, 2),
               Over(Minus(CurrentX(familyWidths, Len(familyWidths)), Num(familyGap)),
                    Num(2))))

\* leftEdge of line 702 for the family with this key
FamilyLeftEdge(ns, ids, key) ==
    LET list == SelectSeq(ids, LAMBDA id : FamilyKey(ns[id]) = key)
    IN  MinOf([i \in 1..Len(list) |-> LeftEdgeOf(ns[list[i]])])

\* x with the family's left edge left in
FinalXUnshifted(n, baseX, leftEdge) == Plus(baseX, OrElse(n.localX, Num(0)))
\* every node on the top layer
FlatY(n) == Rat(height, 4)

\* node.x and node.y
FinalX(n, baseX, leftEdge) == Minus(Plus(baseX, OrElse(n.localX, Num(0))), leftEdge)
FinalY(n) == Plus(Rat(height, 4), Num(n.depth * layerHeight))

\* familyCenterX.get(k) ?? 0
FamilyCenterX(familyWidths, keys, k) ==
    IF k \in Range(keys)
    THEN Plus(FamilyBaseX(familyWidths, IndexOf(keys, k)),
              Over(familyWidths[IndexOf(keys, k)], Num(2)))
    ELSE Num(0)

\* the comparator of line 719 on family names
CenterCmp(familyWidths, keys, S) ==
    [p \in S \X S |->
        IF Less(FamilyCenterX(familyWidths, keys, p[1]),
                FamilyCenterX(familyWidths, keys, p[2])) THEN -1
        ELSE IF Less(FamilyCenterX(familyWidths, keys, p[2]),
                     FamilyCenterX(familyWidths, keys, p[1])) THEN 1
        ELSE 0]

\* the first two families as the record declares them
DeclaredOrder(n, familyWidths, keys) ==
    IF Len(n.families) >= 2 THEN SubSeq(n.families, 1, 2) ELSE <<>>

\* familyOrderByPosition of a node
FamilyOrderByPosition(n, familyWidths, keys) ==
    IF Len(n.families) >= 2
    THEN SortBy(SubSeq(n.families, 1, 2),
                CenterCmp(familyWidths, keys, Range(SubSeq(n.families, 1, 2))))
    ELSE <<>>

\* lines 687-722: the families side by side, x and y written to every node
Compose(laid, ids, gl, keys) ==
    [nodes |->
        [id \in DOMAIN laid.ns |->
            [laid.ns[id] EXCEPT
                !.x = FinalX(laid.ns[id],
                             FamilyBaseX(laid.familyWidths,
                                         IndexOf(keys, FamilyKey(laid.ns[id]))),
                             FamilyLeftEdge(laid.ns, ids, FamilyKey(laid.ns[id]))),
                !.y = FinalY(laid.ns[id]),
                !.familyOrderByPosition =
                    FamilyOrderByPosition(laid.ns[id], laid.familyWidths, keys)]],
     links |-> gl, familyKeys |-> keys, walks |-> laid.walks]

\* node.estimatedWidth = textWidth + labelPadding
WithEstimatedWidth(ns) ==
    Eager([id \in DOMAIN ns |->
              [ns[id] EXCEPT !.estimatedWidth = Num(measureNodeLabelWidth(id) + labelPadding)]])

LayoutInOrder(ns, ids, gl, keys) ==
    Compose(LayoutFamilies([ns |-> WithEstimatedWidth(ns), familyWidths |-> <<>>,
                            walks |-> <<>>], ids, gl, keys, 1),
            ids, gl, keys)

LayoutOfLinks(ns, ids, gl) ==
    LayoutInOrder(ns, ids, gl,
        orderFamiliesByConnectivity(AllFamilyKeys(ns, ids),
            FamilyCrossLinks(ns, gl, Range(AllFamilyKeys(ns, ids)))))

\* calculateGraphLayout(nodes, links): [nodes, links, familyKeys, walks]
calculateGraphLayout(ns, ids, links) == LayoutOfLinks(ns, ids, graphLinks(ns, links))

(***************************************************************************)
(* buildTree.                                                              *)
(***************************************************************************)
\* currentPath = null is the empty sequence: a path found has an entity in it
NullPath == <<>>

NoPath == [currentPath |-> NullPath, pathNodes |-> {}, pathLinks |-> {}]

\* the path globals after lines 366-372, from their values p before them
PathAfterBuildTree(preservePath, p) == IF preservePath THEN p ELSE NoPath

\* what the pass's walks did: per entity for calculateDepth, per family for
\* placeSubtree
WalkSummary(st) ==
    [expanded |-> st.expanded, backEdge |-> st.backEdge, runaway |-> st.runaway]

\* the pass of buildTree over the record set td: calculateGraphLayout's
\* result, with what the walks of calculateDepth (per entity) and of
\* placeSubtree (per family) did
PassResult(td, l) ==
    [nodes |-> l.nodes, links |-> l.links, familyKeys |-> l.familyKeys,
     depthWalks |-> [name \in DOMAIN l.nodes |->
                        WalkSummary(DepthWalk(adjacencyList(td), name).st)],
     placeWalks |-> [i \in 1..Len(l.walks) |-> WalkSummary(l.walks[i])]]

\* a pass that lays out only the records of the family filter, while there
\* are any
LayoutPassOfFamily(td) ==
    LET shown == IF view.familyNodes = {} THEN td
                 ELSE SelectSeq(td, LAMBDA r : r.name \in view.familyNodes)
    IN  PassResult(shown, calculateGraphLayout(BuildNodes(shown), NodeIds(shown),
                                               BuildLinks(shown)))

LayoutPass(td) ==
    PassResult(td, calculateGraphLayout(BuildNodes(td), NodeIds(td), BuildLinks(td)))

\* before the first pass nothing is laid out
NoLayout ==
    [nodes |-> <<>>, links |-> <<>>, familyKeys |-> <<>>,
     depthWalks |-> <<>>, placeWalks |-> <<>>]

(***************************************************************************)
(* The highlight context and renderTreeInternal's node opacity.            *)
(***************************************************************************)
\* the opacities renderTreeInternal gives a node, in percent
Full == 100
LessFaded == 60
Faded == 15

\* currentFamily and currentPledgeClass are null, 'all' or a name; no node
\* selected is the empty name
NullFilter == "null"
AllFilter == "all"
NoNode == ""

\* a JavaScript truth test of a filter global: only null is falsy
Truthy(f) == f # NullFilter

\* currentX && currentX !== 'all'
FilterActive(f) == Truthy(f) /\ f # AllFilter

\* the globals of lines 10-19 and the two filter controls after the page load
InitialView ==
    [currentlySelectedNode |-> NoNode, selectedNodeNuclearFamily |-> {},
     currentPledgeClass |-> NullFilter, pledgeClassNodes |-> {},
     pledgeClassNuclearFamily |-> {}, pledgeClassFilter |-> AllFilter,
     currentFamily |-> NullFilter, familyNodes |-> {},
     familyNuclearFamily |-> {}, familyFilter |-> AllFilter,
     pending |-> {}]

\* person.pledgeClass of the model's records, "" for none
PledgeClassOf(name) ==
    CASE name = "B" -> "Alpha" [] name = "A" -> "Alpha" [] OTHER -> ""

\* treeData.pledgeClasses: the options of the pledge-class control
PledgeClasses == {"Alpha"}

\* the options populateFamilyFilter gives the family control
FamilyOptions(td) == UNION {Range(td[i].families) : i \in 1..Len(td)}

\* the opacity of node id (lines 875-907, fadeIn false) in context v with
\* pathNodes pn
NodeOpacity(id, v, pn) ==
    IF /\ v.currentlySelectedNode # NoNode
       /\ ~Truthy(v.currentFamily)
       /\ (~Truthy(v.currentPledgeClass) \/ v.currentPledgeClass = AllFilter)
       /\ pn = {}
    THEN IF id = v.currentlySelectedNode \/ id \in v.selectedNodeNuclearFamily
         THEN Full ELSE Faded
    ELSE IF pn # {} /\ id \notin pn THEN Faded
    ELSE IF /\ FilterActive(v.currentPledgeClass)
            /\ id \notin v.pledgeClassNodes
            /\ id \notin pn
    THEN IF id \in v.pledgeClassNuclearFamily THEN LessFaded ELSE Faded
    ELSE IF /\ FilterActive(v.currentFamily)
            /\ id \notin v.familyNodes
            /\ id \notin pn
    THEN IF id \in v.familyNuclearFamily THEN LessFaded ELSE Faded
    ELSE Full

\* renderTreeInternal: the opacity of every node of the record set td
Render(td, v, pn) == Eager([id \in PersonNames(td) |-> NodeOpacity(id, v, pn)])

\* buildTree(preservePath), called with the path globals at p
buildTree(preservePath, p) ==
    LET q == PathAfterBuildTree(preservePath, p)
    IN  /\ currentPath' = q.currentPath
        /\ pathNodes' = q.pathNodes
        /\ pathLinks' = q.pathLinks
        /\ layout' = LayoutPass(treeData)
        /\ opacity' = Render(treeData, view, q.pathNodes)

PathGlobals == [currentPath |-> currentPath, pathNodes |-> pathNodes,
                pathLinks |-> pathLinks]

\* what a handler reported: the kind of report, the two names a search was
\* asked for, and the paths the search took off its queue
Report(kind, person1, person2, dequeues) ==
    [kind |-> kind, person1 |-> person1, person2 |-> person2, dequeues |-> dequeues]

NoOutcome == Report("none", "", "", 0)

\* init(): the records are loaded, the tree is built
InitApp ==
    /\ phase = "loaded"
    /\ phase' = "ready"
    /\ buildTree(FALSE, PathGlobals)
    /\ outcome' = NoOutcome
    /\ UNCHANGED <<treeData, view>>

(***************************************************************************)
(* findPath, clearPathDisplay, clearPath.                                  *)
(***************************************************************************)
\* a search that takes any name for a record's
AnyName(td, name) == TRUE

\* allNames.has(name)
NameExists(td, name) == name \in PersonNames(td)

\* an adjacency list that follows littles only
LittlesAdjacency(td) == [name \in PersonNames(td) |-> PersonOf(td, name).littles]

\* the adjacency list of findPath: name -> littles followed by bigs
PathAdjacency(td) ==
    [name \in PersonNames(td) |-> PersonOf(td, name).littles \o PersonOf(td, name).bigs]

RECURSIVE EnqueueTwice(_, _, _, _, _)
\* every new neighbour pushed twice
EnqueueTwice(neighbors, i, queue, visited, path) ==
    IF i > Len(neighbors) THEN [queue |-> queue, visited |-> visited]
    ELSE IF neighbors[i] \notin visited
         THEN EnqueueTwice(neighbors, i + 1,
                           queue \o <<Append(path, neighbors[i]), Append(path, neighbors[i])>>,
                           visited \cup {neighbors[i]}, path)
         ELSE EnqueueTwice(neighbors, i + 1, queue, visited, path)

RECURSIVE EnqueueBare(_, _, _, _, _)
\* every new neighbour pushed without the path that led to it
EnqueueBare(neighbors, i, queue, visited, path) ==
    IF i > Len(neighbors) THEN [queue |-> queue, visited |-> visited]
    ELSE IF neighbors[i] \notin visited
         THEN EnqueueBare(neighbors, i + 1, Append(queue, <<neighbors[i]>>),
                          visited \cup {neighbors[i]}, path)
         ELSE EnqueueBare(neighbors, i + 1, queue, visited, path)

RECURSIVE Enqueue(_, _, _, _, _)
\* for (const neighbor of neighbors) { if (!visited.has(neighbor)) ... }
Enqueue(neighbors, i, queue, visited, path) ==
    IF i > Len(neighbors) THEN [queue |-> queue, visited |-> visited]
    ELSE IF neighbors[i] \notin visited
         THEN Enqueue(neighbors, i + 1, Append(queue, Append(path, neighbors[i])),
                      visited \cup {neighbors[i]}, path)
         ELSE Enqueue(neighbors, i + 1, queue, visited, path)

\* a shift that loses the rest of the queue
DequeueDropping(queue) == [path |-> Head(queue), rest |-> <<>>]

\* queue.shift(): the path taken off the queue and the queue left
Dequeue(queue) == [path |-> Head(queue), rest |-> Tail(queue)]

RECURSIVE Search(_, _, _, _, _)
\* the while loop of the search: [path, dequeues], path NullPath when the
\* queue empties
Search(adj, queue, visited, person2, dequeues) ==
    IF queue = <<>> THEN [path |-> NullPath, dequeues |-> dequeues]
    ELSE LET d == Dequeue(queue)
             current == d.path[Len(d.path)]
         IN  IF current = person2 THEN [path |-> d.path, dequeues |-> dequeues + 1]
             ELSE LET neighbors == IF current \in DOMAIN adj THEN adj[current] ELSE <<>>
                      r == Enqueue(neighbors, 1, d.rest, visited, d.path)
                  IN  Search(adj, r.queue, r.visited, person2, dequeues + 1)

\* the search of findPath from person1 to person2
ShortestPath(td, person1, person2) ==
    Search(PathAdjacency(td), <<<<person1>>>>, {person1}, person2, 0)

\* findPath() with the two names the inputs resolve to ("" for an empty one)
findPath(person1, person2) ==
    /\ phase = "ready"
    /\ UNCHANGED <<treeData, phase, view>>
    /\ IF person1 = "" \/ person2 = ""
       THEN /\ outcome' = Report("alertEnterBoth", person1, person2, 0)
            /\ UNCHANGED <<layout, currentPath, pathNodes, pathLinks, opacity>>
       ELSE IF ~NameExists(treeData, person1) \/ ~NameExists(treeData, person2)
       THEN /\ outcome' = Report("alertNotFound", person1, person2, 0)
            /\ UNCHANGED <<layout, currentPath, pathNodes, pathLinks, opacity>>
       ELSE LET r == ShortestPath(treeData, person1, person2)
            IN  IF r.path # NullPath
                THEN /\ buildTree(TRUE,
                           [currentPath |-> r.path,
                            pathNodes |-> Range(r.path),
                            pathLinks |-> {<<r.path[i], r.path[i + 1]>> :
                                              i \in 1..(Len(r.path) - 1)}])
                     /\ outcome' = Report("path", person1, person2, r.dequeues)
                ELSE /\ currentPath' = NullPath
                     /\ outcome' = Report("noPath", person1, person2, r.dequeues)
                     /\ UNCHANGED <<layout, pathNodes, pathLinks, opacity>>

\* clearPathDisplay()
clearPathDisplay ==
    /\ phase = "ready"
    /\ UNCHANGED <<treeData, phase, view>>
    /\ IF currentPath # NullPath
       THEN /\ buildTree(FALSE, NoPath)
            /\ outcome' = Report("cleared", "", "", 0)
       ELSE UNCHANGED <<layout, currentPath, pathNodes, pathLinks, outcome, opacity>>

\* clearPath()
clearPath ==
    /\ phase = "ready"
    /\ UNCHANGED <<treeData, phase, view>>
    /\ outcome' = Report("cleared", "", "", 0)
    /\ buildTree(FALSE, NoPath)

(***************************************************************************)
(* The handlers of the highlight context: node clicks, the two filter      *)
(* controls, clicks on the empty canvas, resetView and the highlight       *)
(* callbacks the filter handlers schedule.  A handler runs over the        *)
(* globals s = [view, path, opacity, built]: built says that it called     *)
(* buildTree.                                                              *)
(***************************************************************************)
\* the globals when a handler starts
Globals == [view |-> view, path |-> PathGlobals, opacity |-> opacity, built |-> FALSE]

\* buildTree(preservePath) inside a handler: the path globals of lines
\* 366-372 and the nodes rendered in the context of that moment
Rebuild(s, preservePath) ==
    LET q == PathAfterBuildTree(preservePath, s.path)
    IN  [view |-> s.view, path |-> q,
         opacity |-> Render(treeData, s.view, q.pathNodes), built |-> TRUE]

\* hideNodeInfo()
hideNodeInfo(s) ==
    LET v == [s.view EXCEPT !.currentlySelectedNode = NoNode,
                            !.selectedNodeNuclearFamily = {}]
        t == [s EXCEPT !.view = v]
    IN  IF /\ ~Truthy(v.currentFamily)
           /\ ~Truthy(v.currentPledgeClass)
           /\ t.path.pathNodes = {}
        THEN Rebuild(t, FALSE) ELSE t

\* showNodeInfo(node) for the node of record id
showNodeInfo(s, id) ==
    LET person == PersonOf(treeData, id)
        v == [s.view EXCEPT !.currentlySelectedNode = id,
                            !.selectedNodeNuclearFamily =
                                Range(person.bigs) \cup Range(person.littles)]
        t == [s EXCEPT !.view = v]
    IN  IF /\ ~Truthy(v.currentFamily)
           /\ (~Truthy(v.currentPledgeClass) \/ v.currentPledgeClass = AllFilter)
           /\ t.path.pathNodes = {}
        THEN Rebuild(t, FALSE) ELSE t

\* clearPathDisplay() inside a handler
clearPathDisplayIn(s) ==
    IF s.path.currentPath # NullPath THEN Rebuild([s EXCEPT !.path = NoPath], FALSE)
    ELSE s

\* the bigs and littles of the records in members
NuclearFamily(td, members) ==
    UNION {Range(PersonOf(td, m).littles) \cup Range(PersonOf(td, m).bigs) : m \in members}

\* a family handler that leaves the pledge-class filter as it is
familyFilterKeepsPledge(s, selectedFamily) ==
    LET s1 == hideNodeInfo([s EXCEPT !.view.currentFamily = selectedFamily,
                                     !.view.familyFilter = selectedFamily])
        members == {n \in PersonNames(treeData) :
                       selectedFamily \in Range(PersonOf(treeData, n).families)}
        s3 == Rebuild([s1 EXCEPT !.view.familyNodes = members,
                                 !.view.familyNuclearFamily =
                                     NuclearFamily(treeData, members)], FALSE)
    IN  [s3 EXCEPT !.view.pending = @ \cup {"highlightFamilyInTree"}]

\* the change handler of the family control, its value at selectedFamily
familyFilterChange(s, selectedFamily) ==
    LET s1 == hideNodeInfo([s EXCEPT !.view.currentFamily = selectedFamily,
                                     !.view.familyFilter = selectedFamily])
        s2 == IF selectedFamily # AllFilter /\ s1.view.pledgeClassFilter # AllFilter
              THEN [s1 EXCEPT !.view.pledgeClassFilter = AllFilter,
                              !.view.pledgeClassNodes = {},
                              !.view.pledgeClassNuclearFamily = {},
                              !.view.currentPledgeClass = NullFilter]
              ELSE s1
    IN  IF selectedFamily = AllFilter
        THEN Rebuild([s2 EXCEPT !.view.familyNodes = {},
                                !.view.familyNuclearFamily = {}], FALSE)
        ELSE LET members == {n \in PersonNames(treeData) :
                                selectedFamily \in Range(PersonOf(treeData, n).families)}
                 s3 == Rebuild([s2 EXCEPT !.view.familyNodes = members,
                                          !.view.familyNuclearFamily =
                                              NuclearFamily(treeData, members)], FALSE)
             IN  [s3 EXCEPT !.view.pending = @ \cup {"highlightFamilyInTree"}]

\* the change handler of the pledge-class control, its value at
\* selectedPledgeClass
pledgeClassFilterChange(s, selectedPledgeClass) ==
    LET s1 == hideNodeInfo([s EXCEPT !.view.currentPledgeClass = selectedPledgeClass,
                                     !.view.pledgeClassFilter = selectedPledgeClass])
        s2 == IF selectedPledgeClass # AllFilter /\ s1.view.familyFilter # AllFilter
              THEN [s1 EXCEPT !.view.familyFilter = AllFilter,
                              !.view.familyNodes = {},
                              !.view.familyNuclearFamily = {},
                              !.view.currentFamily = NullFilter]
              ELSE s1
    IN  IF selectedPledgeClass = AllFilter
        THEN Rebuild([s2 EXCEPT !.view.pledgeClassNodes = {},
                                !.view.pledgeClassNuclearFamily = {}], FALSE)
        ELSE LET members == {n \in PersonNames(treeData) :
                                PledgeClassOf(n) = selectedPledgeClass}
                 s3 == Rebuild([s2 EXCEPT !.view.pledgeClassNodes = members,
                                          !.view.pledgeClassNuclearFamily =
                                              NuclearFamily(treeData, members)], FALSE)
             IN  [s3 EXCEPT !.view.pending = @ \cup {"highlightPledgeClassInTree"}]

\* the click handler of the canvas, when its timer runs and nothing is dragged
backgroundClick(s) ==
    LET personPopupWasShowing == s.view.currentlySelectedNode # NoNode
        pathIsShowing == s.path.currentPath # NullPath
        s1 == hideNodeInfo(s)
        s2 == clearPathDisplayIn(s1)
        s3 == IF FilterActive(s2.view.currentFamily)
              THEN familyFilterChange(s2, AllFilter) ELSE s2
        s4 == IF FilterActive(s3.view.currentPledgeClass)
              THEN pledgeClassFilterChange(s3, AllFilter) ELSE s3
    IN  IF pathIsShowing \/ personPopupWasShowing THEN s2 ELSE s4

\* the body of resetView()
resetViewIn(s) ==
    LET s1 == hideNodeInfo(s)
    IN  Rebuild([s1 EXCEPT !.path = NoPath,
                           !.view.familyFilter = AllFilter,
                           !.view.pledgeClassFilter = AllFilter,
                           !.view.pledgeClassNodes = {},
                           !.view.pledgeClassNuclearFamily = {},
                           !.view.currentPledgeClass = NullFilter,
                           !.view.familyNodes = {},
                           !.view.familyNuclearFamily = {},
                           !.view.currentFamily = NullFilter], FALSE)

\* the globals a handler leaves, and the tree laid out again if it built one
Leave(s) ==
    /\ view' = s.view
    /\ currentPath' = s.path.currentPath
    /\ pathNodes' = s.path.pathNodes
    /\ pathLinks' = s.path.pathLinks
    /\ opacity' = s.opacity
    /\ layout' = IF s.built THEN LayoutPass(treeData) ELSE layout
    /\ outcome' = NoOutcome
    /\ UNCHANGED <<treeData, phase>>

\* a click on the node of record id: the panel of the selected node closes,
\* any other node is selected
NodeClick(id) ==
    /\ phase = "ready"
    /\ id \in PersonNames(treeData)
    /\ Leave(IF view.currentlySelectedNode = id THEN hideNodeInfo(Globals)
             ELSE showNodeInfo(Globals, id))

\* the family control changes to another of its options
FamilyFilterChange(selectedFamily) ==
    /\ phase = "ready"
    /\ selectedFamily \in FamilyOptions(treeData) \cup {AllFilter}
    /\ selectedFamily # view.familyFilter
    /\ Leave(familyFilterChange(Globals, selectedFamily))

\* the pledge-class control changes to another of its options
PledgeClassFilterChange(selectedPledgeClass) ==
    /\ phase = "ready"
    /\ selectedPledgeClass \in PledgeClasses \cup {AllFilter}
    /\ selectedPledgeClass # view.pledgeClassFilter
    /\ Leave(pledgeClassFilterChange(Globals, selectedPledgeClass))

\* a click on the empty canvas
BackgroundClick ==
    /\ phase = "ready"
    /\ Leave(backgroundClick(Globals))

\* resetView()
resetView ==
    /\ phase = "ready"
    /\ Leave(resetViewIn(Globals))

\* what highlightFamilyInTree and highlightPledgeClassInTree do to the
\* opacity of node id: members of the filter get full opacity, the others
\* are faded while current is an active filter, nodes of the path are left
HighlightOpacity(id, members, nuclear, current) ==
    IF id \in pathNodes THEN opacity[id]
    ELSE IF id \in members THEN Full
    ELSE IF FilterActive(current)
         THEN IF id \in nuclear THEN LessFaded ELSE Faded
    ELSE Full

\* the callback the family handler scheduled runs
highlightFamilyInTree ==
    /\ "highlightFamilyInTree" \in view.pending
    /\ view' = [view EXCEPT !.pending = @ \ {"highlightFamilyInTree"}]
    /\ opacity' = [id \in DOMAIN opacity |->
                       HighlightOpacity(id, view.familyNodes, view.familyNuclearFamily,
                                        view.currentFamily)]
    /\ UNCHANGED <<treeData, phase, layout, currentPath, pathNodes, pathLinks, outcome>>

\* the callback the pledge-class handler scheduled runs
highlightPledgeClassInTree ==
    /\ "highlightPledgeClassInTree" \in view.pending
    /\ view' = [view EXCEPT !.pending = @ \ {"highlightPledgeClassInTree"}]
    /\ opacity' = [id \in DOMAIN opacity |->
                       HighlightOpacity(id, view.pledgeClassNodes,
                                        view.pledgeClassNuclearFamily,
                                        view.currentPledgeClass)]
    /\ UNCHANGED <<treeData, phase, layout, currentPath, pathNodes, pathLinks, outcome>>

(***************************************************************************)
(* Specifications.  The record set is the input: it is drawn in the        *)
(* initial state and never changes.                                        *)
(***************************************************************************)
InitGlobals ==
    /\ phase = "loaded"
    /\ layout = NoLayout
    /\ currentPath = NullPath
    /\ pathNodes = {}
    /\ pathLinks = {}
    /\ outcome = NoOutcome
    /\ view = InitialView
    /\ opacity = <<>>

\* record sets that declare bigs only, in any order
InitDepth ==
    /\ \E b \in ListAssignments(Lists, Len(PeopleOrder), MaxEdges) :
          treeData = MakePeople(b, NoLists(Len(b)), NoLists(Len(b)))
    /\ InitGlobals

\* the tree is built, and built again
NextBuild == InitApp \/ clearPath

SpecDepth == InitDepth /\ [][NextBuild]_vars

\* the families lists of the records: no families, two families, and records
\* of several families
FamilyPatterns ==
    {NoLists(Len(PeopleOrder)),
     <<<<"X">>, <<"X">>, <<"Y">>, <<>>>>,
     <<<<"X", "Y">>, <<"Y", "X">>, <<"X", "W">>, <<>>>>}

\* record sets that declare littles, with no bigs or with the bigs that agree
\* with them, and families
InitLayout ==
    /\ \E l \in ListAssignments(Lists, Len(PeopleOrder), MaxEdges - 1) :
          \E b \in {NoLists(Len(l)), MirrorBigs(l)} :
              \E f \in FamilyPatterns : treeData = MakePeople(b, l, f)
    /\ InitGlobals

SpecLayout == InitLayout /\ [][NextBuild]_vars

\* the lists of the record sets paths are searched on: records of the set,
\* each at most once
PathLists ==
    {s \in SeqsUpTo({PeopleOrder[i] : i \in 1..PathPeople}, MaxList) : NoDuplicates(s)}

\* what the two inputs of a path search resolve to: any two records, or a
\* name of no record, or an empty input
PathInputs ==
    ({PeopleOrder[i] : i \in 1..PathPeople} \X {PeopleOrder[i] : i \in 1..PathPeople})
    \cup {<<Unknown, PeopleOrder[1]>>, <<PeopleOrder[1], Unknown>>, <<"", PeopleOrder[1]>>}

\* no record lists itself
NoSelf(lists) == \A i \in 1..Len(lists) : PeopleOrder[i] \notin Range(lists[i])

\* littles lists that may name the record of nobody
LooseLists ==
    {s \in SeqsUpTo({PeopleOrder[i] : i \in 1..PathPeople} \cup {Unknown}, MaxList) :
        NoDuplicates(s)}

\* the littles of PathPeople records: up to MaxEdges - 1 names of records, or
\* up to MaxEdges - 2 names one of which is nobody's
PathLittles ==
    {a \in ListAssignments(PathLists, PathPeople, MaxEdges - 1) : NoSelf(a)}
    \cup {a \in ListAssignments(LooseLists, PathPeople, MaxEdges - 2) :
             NoSelf(a) /\ \E i \in 1..Len(a) : Unknown \in Range(a[i])}

\* record sets of PathPeople records that declare littles, with no bigs or
\* with the bigs that agree with them
InitPath ==
    /\ \E l \in PathLittles :
          \E b \in {NoLists(Len(l)), MirrorBigs(l)} :
              treeData = MakePeople(b, l, NoLists(Len(l)))
    /\ InitGlobals

NextPath ==
    \/ InitApp
    \/ \E p \in PathInputs : findPath(p[1], p[2])
    \/ clearPathDisplay
    \/ clearPath

SpecPath == InitPath /\ [][NextPath]_vars

\* the families lists of n records, each record alone in its cluster: one
\* of three families or none
OwnClusters(n) ==
    {f \in [1..n -> {<<>>, <<"X">>, <<"Y">>, <<"W">>}] :
        \A i, j \in 1..n : f[i] = f[j] => i = j}

\* littles lists over the first n records, no name twice
OrderLists(n) ==
    {s \in SeqsUpTo({PeopleOrder[i] : i \in 1..n}, MaxList) : NoDuplicates(s)}

\* record sets of no to four records, every record in a cluster of its own,
\* so that every declared little is a link between two clusters
InitOrder ==
    /\ \E n \in 0..Len(PeopleOrder) :
          \E l \in {a \in ListAssignments(OrderLists(n), n, MaxEdges - 1) : NoSelf(a)} :
              \E f \in OwnClusters(n) : treeData = MakePeople(NoLists(n), l, f)
    /\ InitGlobals

SpecOrder == InitOrder /\ [][NextBuild]_vars

\* the families of the records the highlight context is exercised on: the
\* first record in two families, the second in one, the others in none
ViewFamilies(n) == [i \in 1..n |-> IF i = 1 THEN <<"X", "Y">>
                                   ELSE IF i = 2 THEN <<"X">> ELSE <<>>]

\* the littles of those records: the first record declares up to MaxList
\* littles, the others none
ViewLittles ==
    {[i \in 1..PathPeople |-> IF i = 1 THEN s ELSE <<>>] :
        s \in {q \in PathLists : PeopleOrder[1] \notin Range(q)}}

\* the searches asked for in a highlight context: from the first record to
\* another
ViewInputs == {PeopleOrder[1]} \X {PeopleOrder[i] : i \in 2..PathPeople}

\* record sets of PathPeople records with families, littles and the bigs
\* that agree with them
InitView ==
    /\ \E l \in ViewLittles :
          treeData = MakePeople(MirrorBigs(l), l, ViewFamilies(PathPeople))
    /\ InitGlobals

NextView ==
    \/ InitApp
    \/ \E id \in People : NodeClick(id)
    \/ \E f \in FamilyOptions(treeData) \cup {AllFilter} : FamilyFilterChange(f)
    \/ \E c \in PledgeClasses \cup {AllFilter} : PledgeClassFilterChange(c)
    \/ BackgroundClick
    \/ resetView
    \/ highlightFamilyInTree
    \/ highlightPledgeClassInTree
    \/ \E p \in ViewInputs : findPath(p[1], p[2])
    \/ clearPath

SpecView == InitView /\ [][NextView]_vars

(***************************************************************************)
(* Properties.  The graph of the record set, read off treeData itself.     *)
(***************************************************************************)
Entities == PersonNames(treeData)

\* the bigs and the littles an entity declares
BigsOf(e) == IF e \in Entities THEN Range(PersonOf(treeData, e).bigs) ELSE {}
LittlesOf(e) == IF e \in Entities THEN Range(PersonOf(treeData, e).littles) ELSE {}

RECURSIVE BigsClosure(_)
\* S with every big of a member, and theirs
BigsClosure(S) ==
    LET more == S \cup UNION {BigsOf(x) : x \in S}
    IN  IF more = S THEN S ELSE BigsClosure(more)

RECURSIVE LittlesClosure(_)
LittlesClosure(S) ==
    LET more == S \cup UNION {LittlesOf(x) : x \in S}
    IN  IF more = S THEN S ELSE LittlesClosure(more)

\* no entity is its own big, at any remove
BigsAcyclic == \A e \in Entities : e \notin BigsClosure(BigsOf(e))

RECURSIVE LongestPath(_)
\* the longest chain of bigs above e, on an acyclic record set
LongestPath(e) ==
    IF BigsOf(e) = {} THEN 0
    ELSE 1 + (CHOOSE m \in {LongestPath(b) : b \in BigsOf(e)} :
                 \A b \in BigsOf(e) : LongestPath(b) <= m)

DepthOf(e) == layout.nodes[e].depth

\* the neighbours findPath is to follow from e: its declared littles and bigs
NeighboursOf(e) == LittlesOf(e) \cup BigsOf(e)

RECURSIVE HopsFrom(_, _, _, _)
\* the least number of hops from the set `frontier` (n hops from the source)
\* to target, -1 if there is none
HopsFrom(frontier, seen, target, n) ==
    IF target \in frontier THEN n
    ELSE LET next == UNION {NeighboursOf(x) : x \in frontier} \ seen
         IN  IF next = {} THEN -1
             ELSE HopsFrom(next, seen \cup next, target, n + 1)

MinHops(a, b) == HopsFrom({a}, {a}, b, 0)

\* p is a path of the record set: each name a declared neighbour of the one before
IsPath(p) == \A i \in 1..(Len(p) - 1) : p[i + 1] \in NeighboursOf(p[i])

\* the last handler was a search between two records
SearchedRecords ==
    /\ outcome.kind \in {"path", "noPath", "alertNotFound", "alertEnterBoth"}
    /\ outcome.person1 \in Entities
    /\ outcome.person2 \in Entities

\* C1: on an acyclic record set every entity is at least one deeper than each
\* of its bigs that is an entity, in whatever order it lists them.
C1_DepthAboveEveryBig ==
    (phase = "ready" /\ BigsAcyclic) =>
        \A e \in Entities : \A b \in BigsOf(e) \cap Entities :
            DepthOf(e) >= 1 + DepthOf(b)

\* C2: on an acyclic record set the depth of an entity is the longest-path
\* value: 0 with no bigs, else 1 + the greatest depth among its bigs.
C2_DepthIsLongestPath ==
    (phase = "ready" /\ BigsAcyclic) =>
        \A e \in Entities : DepthOf(e) = LongestPath(e)

\* C3: on every record set, cycles, self-loops and several bigs included, the
\* depth of an entity is an integer >= 0, and 0 when it declares no bigs.
C3_DepthNatural ==
    phase = "ready" =>
        \A e \in Entities :
            /\ DepthOf(e) \in Nat
            /\ PersonOf(treeData, e).bigs = <<>> => DepthOf(e) = 0

\* a built tree whose bigs have a cycle, a self-loop and an entity of two bigs
C3_Witness ==
    /\ phase = "ready"
    /\ ~BigsAcyclic
    /\ \E e \in Entities : e \in BigsOf(e)
    /\ \E e \in Entities : Cardinality(BigsOf(e)) = 2 /\ DepthOf(e) >= 2
    /\ \E e \in Entities : PersonOf(treeData, e).bigs = <<>>

\* the clusters of the pass, and the entities of one
ClusterOf(e) == FamilyKey(layout.nodes[e])
Members(k) == {e \in Entities : ClusterOf(e) = k}
\* the littles of e inside its cluster
InnerLittles(e) == {l \in LittlesOf(e) \cap Entities : ClusterOf(l) = ClusterOf(e)}

\* C4: after a full layout pass every entity has a defined, finite x and y,
\* on every record set: cycles inside a cluster, clusters with no root and
\* entities with no cluster included.
C4_FinitePositions ==
    phase = "ready" =>
        \A e \in Entities : IsFinite(layout.nodes[e].x) /\ IsFinite(layout.nodes[e].y)

\* a built tree with a two-cycle inside a cluster none of whose members is a
\* root, next to an entity of no cluster
C4_Witness ==
    /\ phase = "ready"
    /\ \E a, b \in Entities :
          /\ a # b /\ b \in InnerLittles(a) /\ a \in InnerLittles(b)
          /\ \A m \in Members(ClusterOf(a)) :
                \E q \in Members(ClusterOf(a)) : m \in InnerLittles(q)
    /\ \E e \in Entities : layout.nodes[e].family = Null /\ Cardinality(Range(layout.familyKeys)) >= 2

\* what a walk did is in order: it ended within its calls, expanded no entity
\* twice and expanded none that was on its current path
WalkInOrder(w) == ~w.runaway /\ NoDuplicates(w.expanded) /\ ~w.backEdge

\* C5: a full layout pass ends on every record set, cyclic ones included:
\* each top-level calculateDepth and each placeSubtree walk expands an entity
\* at most once and never one that is on its current path.
C5_WalksEnd ==
    phase = "ready" =>
        /\ \A e \in DOMAIN layout.depthWalks : WalkInOrder(layout.depthWalks[e])
        /\ \A i \in DOMAIN layout.placeWalks : WalkInOrder(layout.placeWalks[i])

\* a built tree whose bigs have a cycle and in which placeSubtree expanded
\* an entity of a cycle of littles
C5_Witness ==
    /\ phase = "ready"
    /\ ~BigsAcyclic
    /\ \E i \in DOMAIN layout.placeWalks :
          \E e \in Range(layout.placeWalks[i].expanded) :
              e \in LittlesClosure(InnerLittles(e) \cap Range(layout.placeWalks[i].expanded))
    /\ \E e \in DOMAIN layout.depthWalks : Len(layout.depthWalks[e].expanded) >= 2

\* C6: a path findPath returns between two records is a path of the declared
\* neighbours from the first to the second, and it has the least number of
\* hops there is between them.
C6_PathIsShortest ==
    outcome.kind = "path" =>
        /\ currentPath # NullPath
        /\ currentPath[1] = outcome.person1
        /\ currentPath[Len(currentPath)] = outcome.person2
        /\ IsPath(currentPath)
        /\ Len(currentPath) - 1 = MinHops(outcome.person1, outcome.person2)

\* a one-hop path returned where a two-hop path through a third record exists
C6_Witness ==
    /\ outcome.kind = "path"
    /\ Len(currentPath) = 2
    /\ \E m \in Entities \ Range(currentPath) :
          m \in NeighboursOf(currentPath[1]) /\ currentPath[2] \in NeighboursOf(m)

\* C7: between two records findPath reports no path (currentPath null, the
\* popup naming both) exactly when the second cannot be reached from the first
\* along declared bigs and littles, and returns a path whenever it can.
C7_NoPathIffUnreachable ==
    (SearchedRecords /\ outcome.person1 # "" /\ outcome.person2 # "") =>
        /\ outcome.kind \in {"path", "noPath"}
        /\ outcome.kind = "noPath" <=> MinHops(outcome.person1, outcome.person2) = -1
        /\ outcome.kind = "noPath" => currentPath = NullPath
        /\ outcome.kind = "path" => currentPath # NullPath

\* no path reported from a record that declares a neighbour, to another record
C7_Witness ==
    /\ outcome.kind = "noPath"
    /\ NeighboursOf(outcome.person1) # {}
    /\ outcome.dequeues >= 2
    /\ currentPath = NullPath

\* C8: a search one of whose names is no record ends in the not-found alert,
\* which is not the no-path report, takes no path off a queue, and leaves
\* currentPath, pathNodes, pathLinks and the layout as they were.
C8_UnknownNameAlerts ==
    [][(/\ outcome'.person1 # "" /\ outcome'.person2 # ""
        /\ (outcome'.person1 \notin Entities \/ outcome'.person2 \notin Entities))
       => (/\ outcome'.kind = "alertNotFound"
           /\ outcome'.dequeues = 0
           /\ currentPath' = currentPath
           /\ pathNodes' = pathNodes
           /\ pathLinks' = pathLinks
           /\ layout' = layout)]_vars

\* the alert reported while an earlier path is still the current one
C8_Witness ==
    /\ outcome.kind = "alertNotFound"
    /\ outcome.person1 = Unknown \/ outcome.person2 = Unknown
    /\ currentPath # NullPath
    /\ pathLinks # {}

\* C9: the search is undirected: between two records a path is found one way
\* exactly when one is found the other way, of the same number of edges, even
\* when a link is declared on one side only.
C9_SearchUndirected ==
    (SearchedRecords /\ outcome.kind \in {"path", "noPath"}) =>
        LET back == ShortestPath(treeData, outcome.person2, outcome.person1).path
        IN  /\ outcome.kind = "path" <=> back # NullPath
            /\ outcome.kind = "path" => Len(back) = Len(currentPath)

Leaves(k) == {e \in Members(k) : InnerLittles(e) = {}}
\* the leaves of e's cluster that end left of e
LeavesLeftOf(e) ==
    {l \in Leaves(ClusterOf(e)) \ {e} : Less(layout.nodes[l].localX, layout.nodes[e].localX)}
\* the position of a leaf that follows the leaf p
AfterLeaf(p, e) ==
    Plus(Plus(layout.nodes[p].localX,
              Over(Plus(layout.nodes[p].estimatedWidth, layout.nodes[e].estimatedWidth),
                   Num(2))),
         Num(minGap))

\* C11: in every cluster the leaves, taken in the order of their unit
\* positions, end at strictly increasing local positions: the first at 0, each
\* next one at the one before plus half the two estimated widths plus minGap.
C11_LeavesInUnitOrder ==
    phase = "ready" =>
        \A e \in Entities : InnerLittles(e) = {} =>
            /\ IsFinite(layout.nodes[e].localX)
            /\ \A l \in Leaves(ClusterOf(e)) \ {e} :
                  /\ layout.nodes[l].localX # layout.nodes[e].localX
                  /\ (IsFinite(layout.nodes[l].unitX) /\ IsFinite(layout.nodes[e].unitX)
                      /\ Less(layout.nodes[l].unitX, layout.nodes[e].unitX))
                     => Less(layout.nodes[l].localX, layout.nodes[e].localX)
            /\ IF LeavesLeftOf(e) = {} THEN layout.nodes[e].localX = Num(0)
               ELSE \E p \in LeavesLeftOf(e) :
                       /\ \A l \in LeavesLeftOf(e) \ {p} :
                             Less(layout.nodes[l].localX, layout.nodes[p].localX)
                       /\ layout.nodes[e].localX = AfterLeaf(p, e)

\* a cluster has a block when it is the cluster of some entity
HasBlock(k) == Members(k) # {}
\* the block of cluster a lies left of the block of cluster b
LiesLeftOf(a, b) ==
    \A m \in Members(a), n \in Members(b) : Less(layout.nodes[m].x, layout.nodes[n].x)
\* the first two clusters an entity declares
FirstTwo(e) == SubSeq(layout.nodes[e].families, 1, 2)
DualEntities == {e \in Entities : Len(layout.nodes[e].families) >= 2}

\* C12 as stated: familyOrderByPosition holds the first two declared clusters
\* of the entity, and its first element is the cluster whose block lies
\* further left, also when the other cluster has no block.
C12_LeftBlockFirstAlways ==
    phase = "ready" =>
        \A e \in DualEntities :
            LET fo == layout.nodes[e].familyOrderByPosition
            IN  /\ fo \in {FirstTwo(e), <<FirstTwo(e)[2], FirstTwo(e)[1]>>}
                /\ HasBlock(fo[1])
                /\ (HasBlock(fo[2]) /\ fo[1] # fo[2]) => LiesLeftOf(fo[1], fo[2])

\* C12, for two clusters that both have a block: familyOrderByPosition holds
\* the first two declared clusters with the one whose block lies further left
\* first, in whichever order the entity declared them.
C12_LeftBlockFirst ==
    phase = "ready" =>
        \A e \in DualEntities :
            LET fo == layout.nodes[e].familyOrderByPosition
            IN  /\ fo \in {FirstTwo(e), <<FirstTwo(e)[2], FirstTwo(e)[1]>>}
                /\ (HasBlock(fo[1]) /\ HasBlock(fo[2]) /\ fo[1] # fo[2])
                   => LiesLeftOf(fo[1], fo[2])

\* two entities declare the same two clusters in opposite orders, both
\* clusters have a block, and a third entity declares a cluster with no block
C12_Witness ==
    /\ phase = "ready"
    /\ \E a, b \in DualEntities :
          /\ FirstTwo(a) = <<FirstTwo(b)[2], FirstTwo(b)[1]>>
          /\ FirstTwo(a)[1] # FirstTwo(a)[2]
          /\ HasBlock(FirstTwo(a)[1]) /\ HasBlock(FirstTwo(a)[2])
          /\ layout.nodes[a].familyOrderByPosition = layout.nodes[b].familyOrderByPosition
    /\ \E c \in DualEntities : ~HasBlock(FirstTwo(c)[2])

\* the record set with every name that matches no record deleted from the
\* bigs and littles lists
Resolved(td) ==
    [i \in 1..Len(td) |->
        [td[i] EXCEPT !.bigs = SelectSeq(td[i].bigs, LAMBDA b : b \in PersonNames(td)),
                      !.littles = SelectSeq(td[i].littles, LAMBDA l : l \in PersonNames(td))]]
\* what C13 compares: the depth and (x, y) of every entity and the edge list
Placement(l) ==
    [at |-> [e \in DOMAIN l.nodes |-> <<l.nodes[e].depth, l.nodes[e].x, l.nodes[e].y>>],
     links |-> l.links]

\* C13: a name in a bigs or littles list that matches no record has no effect
\* on the layout: the pass over the record set with those names deleted gives
\* every entity the same depth and (x, y), and the same edge list.
C13_UnknownNamesInert ==
    phase = "ready" => Placement(layout) = Placement(LayoutPass(Resolved(treeData)))

\* C15: after the unit-position walk every entity of every cluster holds a
\* unit position, the entities of a cluster component with no root included.
C15_EveryEntityPlaced ==
    phase = "ready" => \A e \in Entities : IsFinite(layout.nodes[e].unitX)

\* the in-cluster littles of e as its record lists them
InnerLittlesList(e) ==
    SelectSeq(PersonOf(treeData, e).littles, LAMBDA l : l \in InnerLittles(e))
\* the arithmetic mean of f over the entries of the non-empty list s, an
\* entity listed twice counting twice
MeanOver(f, s) == Over(NumSum([i \in 1..Len(s) |-> f[s[i]]]), Num(Len(s)))
\* the final local and unit positions
LocalXs == [e \in Entities |-> layout.nodes[e].localX]
UnitXs == [e \in Entities |-> layout.nodes[e].unitX]

\* C16: at the end of a layout pass every entity with an in-cluster little is
\* at the arithmetic mean of the final local positions of its in-cluster
\* littles, on every input.
C16_ParentsCentered ==
    phase = "ready" =>
        \A e \in Entities :
            InnerLittles(e) # {} => LocalXs[e] = MeanOver(LocalXs, InnerLittlesList(e))

RECURSIVE InnerClosure(_)
\* S with every in-cluster little of a member, and theirs
InnerClosure(S) ==
    LET more == S \cup UNION {InnerLittles(x) : x \in S}
    IN  IF more = S THEN S ELSE InnerClosure(more)
\* the in-cluster littles of cluster k hold no cycle
ClusterAcyclic(k) == \A e \in Members(k) : e \notin InnerClosure(InnerLittles(e))
\* the entities the unit-position walk placed
Placed == {e \in Entities : IsFinite(layout.nodes[e].unitX)}
\* e holds what the walk promises: a leaf a natural number no other placed
\* leaf of its cluster holds, a non-leaf the mean of its placed littles
UnitPositionInOrder(e) ==
    IF InnerLittles(e) = {}
    THEN /\ UnitXs[e].d = 1 /\ UnitXs[e].n >= 0
         /\ \A l \in (Leaves(ClusterOf(e)) \cap Placed) \ {e} : UnitXs[l] # UnitXs[e]
    ELSE /\ InnerLittles(e) \subseteq Placed
         /\ UnitXs[e] = MeanOver(UnitXs, InnerLittlesList(e))

\* C17 as stated: when the walks are over, every placed leaf holds a distinct
\* integer of the counter and every placed non-leaf holds the mean of the
\* final unit positions of its in-cluster littles, all of them placed.
C17_WalkMeansAlways ==
    phase = "ready" => \A e \in Placed : UnitPositionInOrder(e)

\* C17, for a cluster whose in-cluster littles hold no cycle: every placed
\* leaf holds a distinct integer of the counter and every placed non-leaf
\* holds the mean of the final unit positions of its in-cluster littles.
C17_WalkMeans ==
    phase = "ready" =>
        \A e \in Placed : ClusterAcyclic(ClusterOf(e)) => UnitPositionInOrder(e)

\* an acyclic cluster with two placed leaves under one placed non-leaf, one of
\* the leaves a little of a second non-leaf as well
C17_Witness ==
    /\ phase = "ready"
    /\ \E p, q, a, b \in Placed :
          /\ ClusterAcyclic(ClusterOf(p))
          /\ p # q /\ a # b
          /\ InnerLittles(p) = {a, b} /\ a \in InnerLittles(q)
          /\ InnerLittles(a) = {} /\ InnerLittles(b) = {}
          /\ UnitXs[p] # UnitXs[a] /\ UnitXs[p] # UnitXs[b]

(***************************************************************************)
(* The cluster order: what orderFamiliesByConnectivity was given by the    *)
(* pass that built layout, and the turns it took.                          *)
(***************************************************************************)
OrdererKeys == AllFamilyKeys(layout.nodes, NodeIds(treeData))
OrdererWeights ==
    LET W == FamilyCrossLinks(layout.nodes, layout.links, Range(OrdererKeys))
    IN  Eager([a \in DOMAIN W |-> Eager(W[a])])
\* the call of the pass: its keys, its weights, its seed, its turns and the
\* chain the turns end with
CallOf(keys, W) ==
    LET turns == IF Len(keys) <= 1 THEN <<>>
                 ELSE PlaceTurns(W, <<Seed(W, keys)>>, Without(keys, Seed(W, keys)))
    IN  [keys |-> keys, W |-> W,
         seed |-> IF keys = <<>> THEN Null ELSE Seed(W, keys),
         turns |-> turns,
         chain |-> IF turns = <<>> THEN keys ELSE turns[Len(turns)].after]
OrdererCall == CallOf(OrdererKeys, OrdererWeights)
\* the total weight of cluster f to the clusters of the chain placed
ScoreTo(W, f, placed) == SeqSum([j \in 1..Len(placed) |-> W[f][placed[j]]])
\* the unplaced clusters of a turn with the highest score to its chain
Tied(W, turn) ==
    {f \in Range(turn.unplaced) :
        \A g \in Range(turn.unplaced) : ScoreTo(W, g, turn.placed) <= ScoreTo(W, f, turn.placed)}

TieToSmallestName(call) ==
    \A i \in DOMAIN call.turns :
        /\ call.turns[i].bestF \in Tied(call.W, call.turns[i])
        /\ \A g \in Tied(call.W, call.turns[i]) : localeCompare(call.turns[i].bestF, g) <= 0

\* C14: in every turn the cluster placed next is, among the unplaced clusters
\* that tie for the highest total weight to the placed ones, the
\* lexicographically smallest name.
C14_TieToSmallestName == phase = "ready" => TieToSmallestName(OrdererCall)

OrderIsPermutation(call, familyKeys) ==
    /\ Len(call.turns) = IF call.keys = <<>> THEN 0 ELSE Len(call.keys) - 1
    /\ \A i \in DOMAIN call.turns :
          /\ call.turns[i].bestF \in Range(call.turns[i].unplaced)
          /\ call.turns[i].bestF \notin Range(call.turns[i].placed)
    /\ familyKeys = call.chain
    /\ Len(familyKeys) = Len(call.keys)
    /\ Range(familyKeys) = Range(call.keys)
    /\ NoDuplicates(familyKeys)

\* C18: orderFamiliesByConnectivity ends, after one turn for every key but
\* the seed, each turn taking one cluster out of unplaced, and what it
\* returns is a permutation of its input keys.
C18_OrderIsPermutation == phase = "ready" => OrderIsPermutation(OrdererCall, layout.familyKeys)

ReorderedFour(call, familyKeys) ==
    /\ Len(call.keys) = 4
    /\ familyKeys # call.keys
    /\ \E a \in Range(call.keys) : ScoreTo(call.W, a, call.keys) = 0
    /\ \E a \in Range(call.keys) : ScoreTo(call.W, a, call.keys) >= 2

\* four clusters, some linked and one linked to none, returned in another
\* order than they came in
C18_Witness == phase = "ready" /\ ReorderedFour(OrdererCall, layout.familyKeys)

SeedHeaviestFirst(call) ==
    /\ call.chain # <<>>
    /\ call.turns # <<>> => call.turns[1].placed = <<call.seed>>
    /\ call.turns = <<>> => call.chain = <<call.seed>>
    /\ \A k \in Range(call.keys) :
          ScoreTo(call.W, k, call.keys) <= ScoreTo(call.W, call.seed, call.keys)
    /\ \A i \in 1..(IndexOf(call.keys, call.seed) - 1) :
          ScoreTo(call.W, call.keys[i], call.keys) < ScoreTo(call.W, call.seed, call.keys)

\* C19: the first cluster placed has the largest total cross-cluster weight,
\* and no cluster before it in input order has the same total.
C19_SeedHeaviestFirst ==
    (phase = "ready" /\ OrdererKeys # <<>>) => SeedHeaviestFirst(OrdererCall)

SharedHeaviest(call) ==
    /\ Len(call.keys) >= 3
    /\ IndexOf(call.keys, call.seed) > 1
    /\ \E i \in DOMAIN call.keys :
          /\ i > IndexOf(call.keys, call.seed)
          /\ ScoreTo(call.W, call.keys[i], call.keys) = ScoreTo(call.W, call.seed, call.keys)
    /\ call.turns[1].placed = <<call.seed>>

\* the heaviest total is shared by two clusters, neither the first key, and
\* the first placed is the earlier of them
C19_Witness == phase = "ready" /\ SharedHeaviest(OrdererCall)

AttachAtAnEnd(call, familyKeys) ==
    \A i \in DOMAIN call.turns :
        /\ call.turns[i].after =
              IF call.W[call.turns[i].bestF][call.turns[i].placed[1]]
                   >= call.W[call.turns[i].bestF][call.turns[i].placed[Len(call.turns[i].placed)]]
              THEN <<call.turns[i].bestF>> \o call.turns[i].placed
              ELSE call.turns[i].placed \o <<call.turns[i].bestF>>
        /\ i < Len(call.turns) => call.turns[i + 1].placed = call.turns[i].after
        /\ i = Len(call.turns) => familyKeys = call.turns[i].after

\* C20: every cluster picked after the seed goes to one end of the chain, the
\* left end when its weight to the leftmost placed cluster is at least its
\* weight to the rightmost one and the right end otherwise; the clusters
\* already placed keep their order.
C20_AttachAtAnEnd == phase = "ready" => AttachAtAnEnd(OrdererCall, layout.familyKeys)

BothEnds(call) ==
    /\ \E i \in DOMAIN call.turns :
          /\ call.turns[i].after = call.turns[i].placed \o <<call.turns[i].bestF>>
          /\ Len(call.turns[i].placed) >= 2
    /\ \E i \in DOMAIN call.turns :
          /\ call.turns[i].after = <<call.turns[i].bestF>> \o call.turns[i].placed
          /\ call.W[call.turns[i].bestF][call.turns[i].placed[1]]
               > call.W[call.turns[i].bestF][call.turns[i].placed[Len(call.turns[i].placed)]]

\* a pass whose chain took a cluster at its right end, the weight to the
\* rightmost being the greater, and one at its left end on greater weight
C20_Witness == phase = "ready" /\ BothEnds(OrdererCall)

(***************************************************************************)
(* The composed diagram.                                                   *)
(***************************************************************************)
\* the left and right edge of the box of entity e
BoxLeft(e) == Minus(layout.nodes[e].x, Over(layout.nodes[e].estimatedWidth, Num(2)))
BoxRight(e) == Plus(layout.nodes[e].x, Over(layout.nodes[e].estimatedWidth, Num(2)))
\* a <= b for finite a, b
AtMost(a, b) == ~Less(b, a)
\* the place of e's cluster in the order of the clusters
PlaceOf(e) == IndexOf(layout.familyKeys, ClusterOf(e))

\* C21: the blocks stand left to right in the order of the cluster orderer
\* and apart: for clusters P before Q the right box edge of every entity of P
\* is at least familyGap left of the left box edge of every entity of Q.
C21_BlocksApart ==
    phase = "ready" =>
        \A p, q \in Entities :
            PlaceOf(p) < PlaceOf(q) => AtMost(Plus(BoxRight(p), Num(familyGap)), BoxLeft(q))

\* three blocks, the middle one of two entities at different places
C21_Witness ==
    /\ phase = "ready"
    /\ Len(layout.familyKeys) = 3
    /\ \E a, b \in Members(layout.familyKeys[2]) : Less(layout.nodes[a].x, layout.nodes[b].x)

\* C22: a composed diagram with an entity in it is centred: the midpoint of
\* the smallest left box edge and the largest right box edge is half the
\* canvas width.
C22_DiagramCentred ==
    (phase = "ready" /\ Entities # {}) =>
        \E l, r \in Entities :
            /\ \A e \in Entities : AtMost(BoxLeft(l), BoxLeft(e)) /\ AtMost(BoxRight(e), BoxRight(r))
            /\ Over(Plus(BoxLeft(l), BoxRight(r)), Num(2)) = Rat(width, 2)

\* two blocks or more, one of them with a parent over a little
C22_Witness ==
    /\ phase = "ready"
    /\ Len(layout.familyKeys) >= 2
    /\ \E e \in Entities : InnerLittles(e) # {} /\ e \notin InnerLittles(e)
    /\ \E a, b \in Entities : layout.nodes[a].estimatedWidth # layout.nodes[b].estimatedWidth

\* C23: the y of an entity is the top margin plus its depth times the layer
\* height, so two entities have the same y exactly when they have the same
\* depth, whatever their clusters.
C23_YFromDepth ==
    phase = "ready" =>
        /\ \A e \in Entities :
              layout.nodes[e].y = Plus(Rat(height, 4), Num(layout.nodes[e].depth * layerHeight))
        /\ \A a, b \in Entities :
              (layout.nodes[a].y = layout.nodes[b].y) <=> (layout.nodes[a].depth = layout.nodes[b].depth)

\* two entities of different clusters at the same depth below the top, and
\* two of one cluster at different depths
C23_Witness ==
    /\ phase = "ready"
    /\ \E a, b \in Entities :
          /\ ClusterOf(a) # ClusterOf(b)
          /\ layout.nodes[a].depth = layout.nodes[b].depth /\ layout.nodes[a].depth >= 1
    /\ \E a, b \in Entities :
          ClusterOf(a) = ClusterOf(b) /\ layout.nodes[a].depth # layout.nodes[b].depth

\* C26: no two distinct entities get the same final (x, y) in a pass.
C26_NoTwoAtOnePlace ==
    phase = "ready" =>
        \A a, b \in Entities :
            a # b => <<layout.nodes[a].x, layout.nodes[a].y>> # <<layout.nodes[b].x, layout.nodes[b].y>>

(***************************************************************************)
(* The search of findPath and the path state.                              *)
(***************************************************************************)
\* every name of the record set: the records and the names their lists hold
AllNames == Entities \cup UNION {BigsOf(e) \cup LittlesOf(e) : e \in Entities}
\* the last handler was a search that ran
Searched == outcome.kind \in {"path", "noPath"}

\* C24: the search of findPath ends, and it takes at most as many paths off
\* its queue as the record set has distinct names.
C24_DequeuesBounded ==
    Searched => outcome.dequeues >= 1 /\ outcome.dequeues <= Cardinality(AllNames)

\* a search that ended with no path on a record set with a cycle and a name
\* of no record, after taking a path off the queue for every name it reached
C24_Witness ==
    /\ outcome.kind = "noPath"
    /\ Unknown \in AllNames
    /\ \E a, b \in Entities : a # b /\ b \in NeighboursOf(a) /\ a \in NeighboursOf(b)
    /\ outcome.dequeues >= 3

\* C25: the path state is consistent: currentPath is null exactly when
\* pathNodes and pathLinks are both empty.
C25_PathStateConsistent ==
    (currentPath = NullPath) <=> (pathNodes = {} /\ pathLinks = {})

\* C27: a path findPath returns is a simple path of entities: it starts with
\* the source and ends with the target, holds no entity twice and only names
\* of records, and each name is a declared big or little of the one before; a
\* search from an entity to itself returns that entity alone.
C27_PathIsSimple ==
    outcome.kind = "path" =>
        /\ currentPath # NullPath
        /\ currentPath[1] = outcome.person1
        /\ currentPath[Len(currentPath)] = outcome.person2
        /\ NoDuplicates(currentPath)
        /\ Range(currentPath) \subseteq Entities
        /\ IsPath(currentPath)
        /\ outcome.person1 = outcome.person2 => currentPath = <<outcome.person1>>
        /\ pathNodes = Range(currentPath)
        /\ Cardinality(pathLinks) = Len(currentPath) - 1

\* a path of three entities returned on a record set with a cycle and with a
\* name of no record in a list
C27_Witness ==
    /\ outcome.kind = "path"
    /\ Len(currentPath) = 3
    /\ \E a, b \in Entities : a # b /\ b \in NeighboursOf(a) /\ a \in NeighboursOf(b)

\* a search from an entity to itself returned the entity alone
C27_SelfWitness ==
    /\ outcome.kind = "path"
    /\ outcome.person1 = outcome.person2
    /\ currentPath = <<outcome.person1>>
    /\ NeighboursOf(outcome.person1) # {}

C29_OneFilterAtATime ==
    /\ ~(FilterActive(view.currentFamily) /\ FilterActive(view.currentPledgeClass))
    /\ ~FilterActive(view.currentFamily) => view.familyNodes = {}
    /\ ~FilterActive(view.currentPledgeClass) => view.pledgeClassNodes = {}

\* the family filter is active with members, and the callback of a
\* pledge-class filter chosen before it is still pending
C29_Witness ==
    /\ FilterActive(view.currentFamily)
    /\ view.familyNodes # {}
    /\ "highlightPledgeClassInTree" \in view.pending
    /\ view.currentPledgeClass = NullFilter

\* neither filter is active and no path is shown, in context v with path
\* globals cp and pn
NothingHighlighted(v, cp, pn) ==
    /\ ~FilterActive(v.currentFamily)
    /\ ~FilterActive(v.currentPledgeClass)
    /\ cp = NullPath
    /\ pn = {}

\* the opacities of a tree that fades every node but the selected one and
\* its bigs and littles, and no node when none is selected
SelectionFade(v) ==
    [id \in Entities |->
        IF v.currentlySelectedNode = NoNode THEN Full
        ELSE IF id = v.currentlySelectedNode
                \/ id \in BigsOf(v.currentlySelectedNode)
                \/ id \in LittlesOf(v.currentlySelectedNode)
             THEN Full
        ELSE Faded]

\* C30: null and 'all' are the same 'no filter' state: while neither filter
\* is active and no path is shown, a handler that selects a person leaves
\* every entity but that person and their bigs and littles faded, and one
\* that deselects leaves nothing faded.
C30_NullAndAllAlike ==
    [][(/\ phase = "ready"
        /\ NothingHighlighted(view, currentPath, pathNodes)
        /\ NothingHighlighted(view', currentPath', pathNodes')
        /\ view'.currentlySelectedNode # view.currentlySelectedNode)
       => opacity' = SelectionFade(view')]_vars

====
